---- MODULE Spec2Model ----
(***************************************************************************)
(* A model of the DCA entry bot's configuration resolver                   *)
(* (src/core/config.py), its point-in-time score assembler                 *)
(* (src/backtest.py) and its walk-forward backtest engine                  *)
(* (src/core/backtest.py).                                                 *)
(*                                                                         *)
(* Numbers: a Python float x of the configuration is held as the integer   *)
(* 100 * x (0.25 is 25).  Prices are integers; derived indicators are      *)
(* integers in the units their definitions name.                           *)
(***************************************************************************)
EXTENDS Integers, Sequences, FiniteSets, Bags, TLC

VARIABLES
    yaml,             \* the static file: a mapping, or "missing" / "unparsable"
    config_tbl,       \* relation config(key, value), in rowid order
    formulas_tbl,     \* relation formulas: name -> [formula, weight]
    tickers_tbl,      \* relation tickers(symbol, enabled), in rowid order
    weight_profiles,  \* relation weight_profiles: id -> [name, is_active]
    profile_weights,  \* relation profile_weights: <<profile_id, formula_name>> -> weight
    profile_seq,      \* sqlite_sequence of weight_profiles (AUTOINCREMENT)
    resolved,         \* what the last get_config returned (NoResult after a write)
    last,             \* the call of set_config_value, set_active_profile or
                      \* delete_weight_profile just made, if the last write was one
    market,           \* what the data provider returns per ticker
    engine_cfg,       \* BacktestEngine.config
    run,              \* the call of run_backtest or run_multi_ticker_backtest under way
    returned,         \* per ticker, what its last run_backtest call alone returned
    report,           \* the frame a caller holds and the call of analyze_results on it
    assembly,         \* six sub-scores and the score assembled from them
    saved             \* per profile, the formula weights save_current_weights_to_profile
                      \* last saved to it, while the profile's rows are those

storeVars == <<config_tbl, formulas_tbl, tickers_tbl, weight_profiles,
               profile_weights, profile_seq>>
btVars == <<market, engine_cfg, run, returned, report, assembly>>
vars == <<yaml, config_tbl, formulas_tbl, tickers_tbl, weight_profiles,
          profile_weights, profile_seq, resolved, last, saved, market, engine_cfg, run,
          returned, report, assembly, saved>>

----------------------------------------------------------------------------
(* Python values, tagged by type. *)

Num(n) == [t |-> "num", n |-> n]
Str(s) == [t |-> "str", s |-> s]
Bool(b) == [t |-> "bool", b |-> b]
Map(m) == [t |-> "map", m |-> m]
Null == [t |-> "null"]

IsMap(v) == v.t = "map"

EmptyDict == [k \in {} |-> Null]

\* dict.setdefault(k, v)
SetDefault(d, k, v) ==
    IF k \in DOMAIN d THEN d
    ELSE [x \in DOMAIN d \cup {k} |-> IF x = k THEN v ELSE d[x]]

\* d[k] = v
SetItem(d, k, v) == [x \in DOMAIN d \cup {k} |-> IF x = k THEN v ELSE d[x]]

----------------------------------------------------------------------------
(* Stored text.  The value column of config holds text: either the JSON    *)
(* text of a value, or text that is no JSON document.  A Python string     *)
(* handed to set_config_value is stored as it is, so its text may happen   *)
(* to be the JSON text of another value ("0.7" is the JSON text of 0.7).   *)

JsonText(v) == [k |-> "json", val |-> v]
RawText(s) == [k |-> "raw", s |-> s]

\* The strings of the model whose characters form a JSON document, with the
\* value that document decodes to.
JsonStrings == [s \in {"0.7", "true", "null"} |->
                  CASE s = "0.7" -> Num(70)
                    [] s = "true" -> Bool(TRUE)
                    [] s = "null" -> Null]

\* The text of a Python string.
StrText(s) == IF s \in DOMAIN JsonStrings THEN JsonText(JsonStrings[s]) ELSE RawText(s)

\* json.dumps(value)
json_dumps(v) == JsonText(v)

\* json.loads(text): the decoded value, or JSONDecodeError
JSONDecodeError == [t |-> "JSONDecodeError"]
json_loads(text) == IF text.k = "json" THEN text.val ELSE JSONDecodeError

----------------------------------------------------------------------------
(* Keys.  A key is the sequence of its dot-separated parts; "." in key is  *)
(* Len(key) > 1 and key.split(".") is the sequence itself.                 *)

RECURSIVE Join(_)
Join(parts) ==
    IF Len(parts) = 1 THEN parts[1]
    ELSE parts[1] \o "." \o Join(Tail(parts))

\* The loop of get_config over parts[:-1] and the final assignment, on the
\* mapping current: [ok |-> TRUE, d |-> the updated mapping], or
\* [ok |-> FALSE] for the TypeError Python raises when a part resolves to a
\* value that is no mapping (a float, a str, None: none supports item
\* assignment).  Intermediate mappings are created empty, so no error can
\* follow a creation and a failed merge leaves the mapping as it was.
RECURSIVE SetPath(_, _, _)
SetPath(current, parts, value) ==
    IF Len(parts) = 1 THEN [ok |-> TRUE, d |-> SetItem(current, parts[1], value)]
    ELSE LET part == parts[1]
             cur1 == IF part \notin DOMAIN current
                     THEN SetItem(current, part, Map(EmptyDict)) ELSE current
             child == cur1[part]
         IN IF ~IsMap(child) THEN [ok |-> FALSE]
            ELSE LET sub == SetPath(child.m, Tail(parts), value)
                 IN IF ~sub.ok THEN [ok |-> FALSE]
                    ELSE [ok |-> TRUE, d |-> SetItem(cur1, part, Map(sub.d))]

----------------------------------------------------------------------------
(* The static file. *)

List(l) == [t |-> "list", l |-> l]

NoFile == [state |-> "missing"]
BadFile == [state |-> "unparsable"]
File(doc) == [state |-> "ok", doc |-> doc]

\* load_yaml_config: {} when the file is missing or cannot be parsed
load_yaml_config(y) == IF y.state = "ok" THEN y.doc ELSE EmptyDict

WeightNames == {"drawdown90", "rsi14", "dist_ma50", "momentum30", "trend_ma200",
                "volatility20"}

DefaultWeights == [w \in WeightNames |->
                     CASE w = "drawdown90" -> Num(25)
                       [] w = "rsi14" -> Num(25)
                       [] w = "dist_ma50" -> Num(20)
                       [] w = "momentum30" -> Num(15)
                       [] w = "trend_ma200" -> Num(10)
                       [] w = "volatility20" -> Num(5)]

DefaultKeys == {"data_period", "drawdown_cap", "volatility_cap", "output_csv",
                "log_file", "timezone", "dev_mode", "schedule_hour", "schedule_minute"}

Defaults == [k \in DefaultKeys |->
               CASE k = "data_period" -> Str("365d")
                 [] k = "drawdown_cap" -> Num(25)
                 [] k = "volatility_cap" -> Num(10)
                 [] k = "output_csv" -> Str("/data/scores_history.csv")
                 [] k = "log_file" -> Str("/data/bot_daily_score.log")
                 [] k = "timezone" -> Str("Europe/Paris")
                 [] k = "dev_mode" -> Bool(FALSE)
                 [] k = "schedule_hour" -> Num(2200)
                 [] k = "schedule_minute" -> Num(1000)]

\* dict d completed by the entries of e that d lacks (a run of setdefault calls)
SetDefaults(d, e) ==
    [k \in DOMAIN d \cup DOMAIN e |-> IF k \in DOMAIN d THEN d[k] ELSE e[k]]

\* Lines 113-124: the file's mapping completed with the scalar defaults.
WithScalarDefaults(y) == SetDefaults(load_yaml_config(y), Defaults)

\* Lines 126-127
WithWeightsKey(c) == SetDefault(c, "weights", Map(EmptyDict))

\* Lines 113-133: [ok |-> TRUE, d |-> the configuration before the store is
\* read], or [ok |-> FALSE] when config["weights"] is no mapping and
\* .setdefault raises AttributeError.
BaseConfig(y) ==
    LET c == WithWeightsKey(WithScalarDefaults(y))
    IN IF ~IsMap(c["weights"]) THEN [ok |-> FALSE]
       ELSE [ok |-> TRUE,
             d |-> SetItem(c, "weights", Map(SetDefaults(c["weights"].m, DefaultWeights)))]

----------------------------------------------------------------------------
(* get_config: the store's part (lines 135-183). *)

\* Lines 143-160 for one row of config: [ok |-> TRUE, d |-> the mapping with
\* the row applied], or [ok |-> FALSE] when the merge raises TypeError (which
\* the inner except, catching JSONDecodeError only, lets through).
ApplyRow(config, row) ==
    LET parsed_value == json_loads(row.value)
    IN IF parsed_value.t = "JSONDecodeError"
       THEN [ok |-> TRUE, d |-> SetItem(config, Join(row.key), Str(row.value.s))]
       ELSE IF Len(row.key) > 1
            THEN SetPath(config, row.key, parsed_value)
            ELSE [ok |-> TRUE, d |-> SetItem(config, row.key[1], parsed_value)]

\* The loop of line 142 over the fetched rows, stopping at the first row that
\* raises: [ok, d] with d the mapping as the loop left it.
RECURSIVE ApplyRows(_, _)
ApplyRows(config, rows) ==
    IF rows = <<>> THEN [ok |-> TRUE, d |-> config]
    ELSE LET r == ApplyRow(config, Head(rows))
         IN IF ~r.ok THEN [ok |-> FALSE, d |-> config]
            ELSE ApplyRows(r.d, Tail(rows))

\* Lines 163-171: the formulas and formula_weights keys, set when the store
\* holds a formula.
WithFormulas(config, ft) ==
    IF DOMAIN ft = {} THEN config
    ELSE SetItem(SetItem(config, "formulas",
                         Map([n \in DOMAIN ft |-> Str(ft[n].formula)])),
                 "formula_weights", Map([n \in DOMAIN ft |-> Num(ft[n].weight)]))

\* EnabledSymbols without WHERE enabled = 1
AllSymbols(tt) == [i \in DOMAIN tt |-> tt[i].symbol]

\* Line 174-175: SELECT symbol FROM tickers WHERE enabled = 1, in rowid order
RECURSIVE EnabledSymbols(_)
EnabledSymbols(tt) ==
    IF tt = <<>> THEN <<>>
    ELSE IF Head(tt).enabled THEN <<Head(tt).symbol>> \o EnabledSymbols(Tail(tt))
         ELSE EnabledSymbols(Tail(tt))

\* Lines 176-177
WithTickers(config, tt) ==
    LET db_tickers == EnabledSymbols(tt)
    IN IF db_tickers # <<>> THEN SetItem(config, "tickers", List(db_tickers)) ELSE config

\* Where a store access of get_config can fail (sqlite3 raising): connecting,
\* or one of the three SELECTs.
FailPoints == {"none", "connect", "config", "formulas", "tickers"}

\* What a call of get_config gives: it raised, or it returned config; err
\* and at say what its except clause logged ("db": a store access raised at
\* the point at; "merge": a row's merge raised; "none": nothing).
Raised == [status |-> "raised", config |-> EmptyDict, err |-> "AttributeError",
           at |-> "none"]
Returned(config, err, at) == [status |-> "ok", config |-> config, err |-> err, at |-> at]

\* ReadStore with an except clause that lets a store failure through
ReadStoreRaising(base, failAt, ct, ft, tt) ==
    IF failAt # "none"
    THEN [status |-> "raised", config |-> EmptyDict, err |-> "db", at |-> failAt]
    ELSE LET rows == ApplyRows(base, ct)
         IN IF ~rows.ok THEN Returned(rows.d, "merge", "none")
            ELSE Returned(WithTickers(WithFormulas(rows.d, ft), tt), "none", "none")

\* Lines 135-183: the try block on the base mapping.  Whatever was done
\* before an exception stays in the returned mapping.
ReadStore(base, failAt, ct, ft, tt) ==
    IF failAt \in {"connect", "config"} THEN Returned(base, "db", failAt)
    ELSE LET rows == ApplyRows(base, ct)
         IN IF ~rows.ok THEN Returned(rows.d, "merge", "none")
            ELSE IF failAt = "formulas" THEN Returned(rows.d, "db", failAt)
            ELSE LET f == WithFormulas(rows.d, ft)
                 IN IF failAt = "tickers" THEN Returned(f, "db", failAt)
                    ELSE Returned(WithTickers(f, tt), "none", "none")

\* get_config (lines 107-183) as a function of the file and the store
GetConfig(y, failAt, ct, ft, tt) ==
    LET base == BaseConfig(y)
    IN IF ~base.ok THEN Raised
       ELSE ReadStore(base.d, failAt, ct, ft, tt)

NoResult == [status |-> "none", config |-> EmptyDict, err |-> "none", at |-> "none"]

\* Lines 207-214: the walk down the parts of a dotted key
RECURSIVE Walk(_, _, _)
Walk(current, parts, default) ==
    IF parts = <<>> THEN current
    ELSE IF IsMap(current) /\ Head(parts) \in DOMAIN current.m
         THEN Walk(current.m[Head(parts)], Tail(parts), default)
         ELSE default

\* get_config_value(key, default) (lines 202-217) on the mapping config that
\* its call of get_config returned
get_config_value(config, key, default) ==
    IF Len(key) > 1 THEN Walk(Map(config), key, default)
    ELSE IF key[1] \in DOMAIN config THEN config[key[1]] ELSE default

----------------------------------------------------------------------------
(* The store's rows.  Each method opens a connection, runs its statements   *)
(* and commits (a statement that raises is never committed, so it leaves    *)
(* the store as it was).  The timestamp and description columns are left    *)
(* out.                                                                     *)

\* rows without the one whose field f is x
RECURSIVE Without(_, _, _)
Without(rows, f, x) ==
    IF rows = <<>> THEN <<>>
    ELSE IF Head(rows)[f] = x THEN Without(Tail(rows), f, x)
         ELSE <<Head(rows)>> \o Without(Tail(rows), f, x)

\* INSERT OR REPLACE on a relation kept in rowid order: the row of the same
\* primary key goes and the new row takes the next rowid (the end).
InsertOrReplace(rows, f, row) == Append(Without(rows, f, row[f]), row)

\* Lines 190-192: the text stored for a value
StoredText(value) == IF value.t = "str" THEN StrText(value.s) ELSE json_dumps(value)

EmptyRel == [k \in {} |-> 0]

\* function g without the keys in ks
Drop(g, ks) == [k \in DOMAIN g \ ks |-> g[k]]

\* function g overridden and extended by h
Upsert(g, h) == [k \in DOMAIN g \cup DOMAIN h |-> IF k \in DOMAIN h THEN h[k] ELSE g[k]]

----------------------------------------------------------------------------
(* The inputs the operations are given. *)

MaxRows == 2        \* rows of config
MaxProfiles == 2    \* profiles ever created

ConfigKeys == {<<"weights", "rsi14">>, <<"drawdown_cap">>, <<"drawdown_cap", "x">>,
               <<"weights">>}
ConfigValues == {Num(50), Str("abc"), Map([rsi14 |-> Num(50)])}

Symbols == {"S1", "S2"}
FormulaNames == {"f1", "f2"}
Weights == {30, 90}
ProfileNames == {"p1", "p2"}
ProfileIds == 1 .. MaxProfiles

\* The weight mappings save_profile_weights is given
WeightSets == {[n \in {"f1"} |-> 90], [n \in {"f2", "zz"} |-> 90]}

YamlFiles == {NoFile, BadFile,
              File([k \in {"tickers", "drawdown_cap", "weights"} |->
                      CASE k = "tickers" -> List(<<"F1", "F2">>)
                        [] k = "drawdown_cap" -> Num(30)
                        [] k = "weights" -> Map([n \in {"rsi14"} |-> Num(40)])]),
              File([k \in {"tickers", "weights"} |->
                      CASE k = "tickers" -> List(<<"F1">>)
                        [] k = "weights" -> Null])}

----------------------------------------------------------------------------
(* The operations of ConfigManager. *)

\* last when the last write was not a set_active_profile
NoCall == [op |-> "other", profile_id |-> 0, formulas |-> EmptyRel, active |-> {},
           key |-> <<>>, value |-> Null, weights |-> EmptyRel]

\* get_config (lines 107-183); a store access may fail at failAt
get_config(failAt) ==
    /\ resolved' = GetConfig(yaml, failAt, config_tbl, formulas_tbl, tickers_tbl)
    /\ UNCHANGED <<yaml, storeVars, last, btVars, saved>>

\* set_config_value (lines 185-200)
set_config_value(key, value) ==
    /\ config_tbl' = InsertOrReplace(config_tbl, "key",
                                     [key |-> key, value |-> StoredText(value)])
    /\ Len(config_tbl') <= MaxRows
    /\ last' = [NoCall EXCEPT !.op = "set_config_value", !.key = key, !.value = value]
    /\ resolved' = NoResult
    /\ UNCHANGED <<yaml, formulas_tbl, tickers_tbl, weight_profiles, profile_weights,
                   profile_seq, btVars, saved>>

\* set_formula (lines 219-230)
set_formula(name, formula, weight) ==
    /\ formulas_tbl' = Upsert(formulas_tbl,
                              [n \in {name} |-> [formula |-> formula, weight |-> weight]])
    /\ last' = NoCall
    /\ resolved' = NoResult
    /\ UNCHANGED <<yaml, config_tbl, tickers_tbl, weight_profiles, profile_weights,
                   profile_seq, btVars, saved>>

\* set_formula_weight (lines 250-261): UPDATE ... WHERE name = ?
set_formula_weight(name, weight) ==
    /\ formulas_tbl' = [n \in DOMAIN formulas_tbl |->
                          IF n = name THEN [formulas_tbl[n] EXCEPT !.weight = weight]
                          ELSE formulas_tbl[n]]
    /\ last' = NoCall
    /\ resolved' = NoResult
    /\ UNCHANGED <<yaml, config_tbl, tickers_tbl, weight_profiles, profile_weights,
                   profile_seq, btVars, saved>>

\* delete_formula (lines 263-271)
delete_formula(name) ==
    /\ formulas_tbl' = Drop(formulas_tbl, {name})
    /\ last' = NoCall
    /\ resolved' = NoResult
    /\ UNCHANGED <<yaml, config_tbl, tickers_tbl, weight_profiles, profile_weights,
                   profile_seq, btVars, saved>>

\* add_ticker (lines 273-284): INSERT OR REPLACE ... VALUES (?, 1, ...)
add_ticker(symbol) ==
    /\ tickers_tbl' = InsertOrReplace(tickers_tbl, "symbol",
                                      [symbol |-> symbol, enabled |-> TRUE])
    /\ last' = NoCall
    /\ resolved' = NoResult
    /\ UNCHANGED <<yaml, config_tbl, formulas_tbl, weight_profiles, profile_weights,
                   profile_seq, btVars, saved>>

\* remove_ticker (lines 286-294)
remove_ticker(symbol) ==
    /\ tickers_tbl' = Without(tickers_tbl, "symbol", symbol)
    /\ last' = NoCall
    /\ resolved' = NoResult
    /\ UNCHANGED <<yaml, config_tbl, formulas_tbl, weight_profiles, profile_weights,
                   profile_seq, btVars, saved>>

\* toggle_ticker (lines 296-306): UPDATE tickers SET enabled = ? WHERE symbol = ?
toggle_ticker(symbol, enabled) ==
    /\ tickers_tbl' = [i \in DOMAIN tickers_tbl |->
                         IF tickers_tbl[i].symbol = symbol
                         THEN [tickers_tbl[i] EXCEPT !.enabled = enabled]
                         ELSE tickers_tbl[i]]
    /\ last' = NoCall
    /\ resolved' = NoResult
    /\ UNCHANGED <<yaml, config_tbl, formulas_tbl, weight_profiles, profile_weights,
                   profile_seq, btVars, saved>>

\* The profile names in use
UsedNames == {weight_profiles[i].name : i \in DOMAIN weight_profiles}

\* create_weight_profile (lines 330-344).  is_active takes its column
\* default, 0.  A name already in use violates UNIQUE: the INSERT raises and
\* nothing is committed.  AUTOINCREMENT never reuses an id.
create_weight_profile(name) ==
    /\ profile_seq < MaxProfiles
    /\ IF name \in UsedNames
       THEN /\ UNCHANGED <<weight_profiles, profile_seq>>
            /\ last' = NoCall
       ELSE /\ profile_seq' = profile_seq + 1
            /\ weight_profiles' =
                   Upsert(weight_profiles,
                          [i \in {profile_seq + 1} |-> [name |-> name, is_active |-> FALSE]])
            /\ last' = NoCall
    /\ resolved' = NoResult
    /\ UNCHANGED <<yaml, config_tbl, formulas_tbl, tickers_tbl, profile_weights, btVars, saved>>

\* The rows of profile_weights of one profile, as a mapping name -> weight
\* (get_profile_weights, lines 453-467)
get_profile_weights(profile_id) ==
    [n \in {k[2] : k \in {x \in DOMAIN profile_weights : x[1] = profile_id}} |->
        profile_weights[<<profile_id, n>>]]

\* Activated without the UPDATE of line 402 that deactivates every profile
ActivatedOnly(profiles, profile_id) ==
    [i \in DOMAIN profiles |->
        IF i = profile_id THEN [profiles[i] EXCEPT !.is_active = TRUE] ELSE profiles[i]]

\* Lines 402-409: every profile deactivated, then the one of this id activated
Activated(profiles, profile_id) ==
    [i \in DOMAIN profiles |-> [profiles[i] EXCEPT !.is_active = (i = profile_id)]]

\* WeightsApplied resetting to zero the formulas the profile does not name
WeightsReset(formulas, pw) ==
    [n \in DOMAIN formulas |->
        [formulas[n] EXCEPT !.weight = IF n \in DOMAIN pw THEN pw[n] ELSE 0]]

\* Lines 412-423: each formula named by a row of the profile takes the row's
\* weight (UPDATE ... WHERE name = ? touches no other row and creates none)
WeightsApplied(formulas, pw) ==
    [n \in DOMAIN formulas |->
        IF n \in DOMAIN pw THEN [formulas[n] EXCEPT !.weight = pw[n]] ELSE formulas[n]]

\* The ids of the profiles whose is_active is set
ActiveIds == {i \in DOMAIN weight_profiles : weight_profiles[i].is_active}

\* set_active_profile (lines 396-426)
set_active_profile(profile_id) ==
    /\ weight_profiles' = Activated(weight_profiles, profile_id)
    /\ formulas_tbl' = WeightsApplied(formulas_tbl, get_profile_weights(profile_id))
    /\ last' = [op |-> "set_active_profile", profile_id |-> profile_id,
                formulas |-> formulas_tbl, active |-> ActiveIds]
    /\ resolved' = NoResult
    /\ UNCHANGED <<yaml, config_tbl, tickers_tbl, profile_weights, profile_seq, btVars, saved>>

\* Replaced without the DELETE of line 434: the rows of the names not given
\* again stay
Merged(pw, profile_id, weights) ==
    Upsert(pw, [k \in {<<profile_id, n>> : n \in DOMAIN weights} |-> weights[k[2]]])

\* Lines 434-441: the profile's rows are deleted and the given ones inserted
Replaced(pw, profile_id, weights) ==
    Upsert(Drop(pw, {k \in DOMAIN pw : k[1] = profile_id}),
           [k \in {<<profile_id, n>> : n \in DOMAIN weights} |-> weights[k[2]]])

\* save_profile_weights (lines 428-451): the profile's rows are deleted and
\* the given ones inserted; no statement looks at weight_profiles.
save_profile_weights(profile_id, weights) ==
    /\ profile_weights' = Replaced(profile_weights, profile_id, weights)
    /\ saved' = Drop(saved, {profile_id})
    /\ last' = [NoCall EXCEPT !.op = "save_profile_weights", !.profile_id = profile_id,
                              !.weights = weights]
    /\ resolved' = NoResult
    /\ UNCHANGED <<yaml, config_tbl, formulas_tbl, tickers_tbl, weight_profiles,
                   profile_seq, btVars>>

\* get_formulas (lines 232-248), the weight of every formula
CurrentWeights == [n \in DOMAIN formulas_tbl |-> formulas_tbl[n].weight]

\* save_current_weights_to_profile (lines 480-484): save_profile_weights
\* with the weights get_formulas gives
save_current_weights_to_profile(profile_id) ==
    /\ profile_weights' = Replaced(profile_weights, profile_id, CurrentWeights)
    /\ saved' = SetItem(saved, profile_id, CurrentWeights)
    /\ last' = [NoCall EXCEPT !.op = "save_profile_weights", !.profile_id = profile_id,
                              !.weights = CurrentWeights]
    /\ resolved' = NoResult
    /\ UNCHANGED <<yaml, config_tbl, formulas_tbl, tickers_tbl, weight_profiles,
                   profile_seq, btVars>>

\* delete_weight_profile (lines 469-478).  The connection of line 91 never
\* issues PRAGMA foreign_keys = ON, and SQLite enforces no foreign key
\* without it: the DELETE removes the profile's row only.
delete_weight_profile(profile_id) ==
    /\ weight_profiles' = Drop(weight_profiles, {profile_id})
    /\ last' = [NoCall EXCEPT !.op = "delete_weight_profile", !.profile_id = profile_id]
    /\ resolved' = NoResult
    /\ UNCHANGED <<yaml, config_tbl, formulas_tbl, tickers_tbl, profile_weights,
                   profile_seq, btVars, saved>>

\* update_profile_info (lines 486-506) with a name (the description is not
\* modelled).  A name another profile uses violates UNIQUE: nothing is
\* committed.
update_profile_info(profile_id, name) ==
    /\ IF /\ profile_id \in DOMAIN weight_profiles
          /\ \E i \in DOMAIN weight_profiles : i # profile_id /\ weight_profiles[i].name = name
       THEN /\ UNCHANGED weight_profiles
            /\ last' = NoCall
       ELSE /\ weight_profiles' =
                   [i \in DOMAIN weight_profiles |->
                       IF i = profile_id THEN [weight_profiles[i] EXCEPT !.name = name]
                       ELSE weight_profiles[i]]
            /\ last' = NoCall
    /\ resolved' = NoResult
    /\ UNCHANGED <<yaml, config_tbl, formulas_tbl, tickers_tbl, profile_weights,
                   profile_seq, btVars, saved>>

----------------------------------------------------------------------------
(* Price series.  A row is [ts, close, valid]: the day number of its       *)
(* timestamp, its closing price, and whether it holds no NaN.              *)

MinBars == 200          \* rows a snapshot needs
ForwardBars == 30       \* rows ahead of a signal that its return needs
IntervalDays == 7       \* run_backtest's default interval_days
ExtendedDays == 400     \* days fetched ahead of start_date
Ma50Window == 50
Ma200Window == 200
High90Window == 90
Vol20Window == 20
Momentum30Periods == 30
RsiPeriod == 14

Max(a, b) == IF a >= b THEN a ELSE b
Min(a, b) == IF a <= b THEN a ELSE b

\* round(num / den) as Python rounds: to nearest, ties to even (den > 0)
Round(num, den) ==
    LET q == num \div den
        r == num % den
    IN IF 2 * r < den THEN q
       ELSE IF 2 * r > den THEN q + 1
       ELSE IF q % 2 = 0 THEN q ELSE q + 1

\* sum of f[a..b]
RECURSIVE SumOf(_, _, _)
SumOf(f, a, b) ==
    IF a > b THEN 0
    ELSE IF a = b THEN f[a]
    ELSE LET m == (a + b) \div 2 IN SumOf(f, a, m) + SumOf(f, m + 1, b)

\* sum of f[a..b] where every f[k] is positive: the size of the bag that
\* holds k that many times
SumOfPositive(f, a, b) == IF a > b THEN 0 ELSE BagCardinality([k \in a .. b |-> f[k]])

\* max of f[a..b], a <= b
MaxOf(f, a, b) ==
    LET values == {f[k] : k \in a .. b}
    IN CHOOSE m \in values : \A x \in values : x <= m

\* floor of the square root of x >= 0
RECURSIVE SqrtIn(_, _, _)
SqrtIn(x, lo, hi) ==
    IF hi - lo <= 1 THEN lo
    ELSE LET m == (lo + hi) \div 2
         IN IF m * m <= x THEN SqrtIn(x, m, hi) ELSE SqrtIn(x, lo, m)
Sqrt(x) == SqrtIn(x, 0, 46341)

\* df.dropna(): the rows that hold no NaN
dropna(rows) == SelectSeq(rows, LAMBDA r : r.valid)

\* searchsorted with side="right": the rows dated start_date are passed over
searchsortedRight(df, start_date) ==
    Cardinality({k \in DOMAIN df : df[k].ts <= start_date})

\* df.index.searchsorted(pd.Timestamp(start_date)): the number of rows whose
\* timestamp is before start_date (the index is sorted), a 0-based index
searchsorted(df, start_date) == Cardinality({k \in DOMAIN df : df[k].ts < start_date})

----------------------------------------------------------------------------
(* The indicators of compute_score_at_date, on the rows hist (1-based; the  *)
(* last row is the evaluated one).  NaN is [nan |-> TRUE, v |-> 0].         *)

NaN == [nan |-> TRUE, v |-> 0]
Val(x) == [nan |-> FALSE, v |-> x]

Close(hist) == [k \in DOMAIN hist |-> hist[k].close]

\* Close.rolling(w, min_periods=1).mean() at the last row, in 1/100
RollingMean(hist, w) ==
    LET n == Len(hist)
        a == Max(1, n - w + 1)
    IN Val((100 * SumOfPositive(Close(hist), a, n)) \div (n - a + 1))

\* Close.rolling(w, min_periods=1).max() at the last row
RollingMax(hist, w) == MaxOf(Close(hist), Max(1, Len(hist) - w + 1), Len(hist))

\* Line 34: (High90 - Close) / High90 at the last row, in 1/10000
Drawdown90(hist) ==
    LET high == RollingMax(hist, High90Window)
    IN IF high = 0 THEN NaN
       ELSE Val(((high - hist[Len(hist)].close) * 10000) \div high)

\* Close.pct_change(periods=p) at row k, in 1/10000; NaN without a row k - p
PctChange(hist, k, p) ==
    IF k - p < 1 \/ hist[k - p].close = 0 THEN NaN
    ELSE Val(((hist[k].close - hist[k - p].close) * 10000) \div hist[k - p].close)

\* Line 35: the sample standard deviation of the last w one-row changes, in
\* 1/10000; NaN with fewer than two of them
Vol20(hist) ==
    LET n == Len(hist)
        a == Max(2, n - Vol20Window + 1)
        cnt == n - a + 1
        x == [k \in a .. n |-> PctChange(hist, k, 1).v]
        sq == [k \in a .. n |-> x[k] * x[k]]
    IN IF cnt < 2 THEN NaN
       ELSE LET sum == SumOf(x, a, n)
            IN Val(Sqrt((cnt * SumOf(sq, a, n) - sum * sum) \div (cnt * (cnt - 1))))

\* Line 36
Momentum30(hist) == PctChange(hist, Len(hist), Momentum30Periods)

\* float(x) if not np.isnan(x) else d (lines 43-46)
OrDefault(x, d) == IF x.nan THEN d ELSE x.v

----------------------------------------------------------------------------
(* The functions compute_score_at_date imports from bot_daily_score.  Each  *)
(* sub-score is a value in [0,1], held in 1/1000, higher meaning more       *)
(* favourable; a cap c of the configuration (in 1/100) saturates the        *)
(* sub-score it parameterises.                                              *)

Clamp(x) == Max(0, Min(1000, x))

\* compute_rsi(close, 14) at the last row, in 1/100: 100 * gains / (gains +
\* losses) over the last 14 changes; NaN when there are fewer or no move
compute_rsi(hist) ==
    LET n == Len(hist)
        d == [k \in (n - RsiPeriod + 1) .. n |-> hist[k].close - hist[k - 1].close]
        up == [k \in DOMAIN d |-> Max(d[k], 0)]
        down == [k \in DOMAIN d |-> Max(0 - d[k], 0)]
    IN IF n < RsiPeriod + 1 THEN NaN
       ELSE LET g == SumOf(up, n - RsiPeriod + 1, n)
                l == SumOf(down, n - RsiPeriod + 1, n)
            IN IF g + l = 0 THEN NaN ELSE Val((10000 * g) \div (g + l))

\* score_drawdown(drawdown, cap): deeper drawdown is more favourable
score_drawdown(drawdown, cap) ==
    IF cap <= 0 THEN 1000 ELSE Clamp((drawdown * 10) \div cap)

\* score_rsi(rsi14): 1 at 30 and below, 0 at 70 and above
score_rsi(rsi14) == Clamp(((7000 - rsi14) * 1000) \div 4000)

\* score_dist_ma50(close, ma50): 1/2 at the average, more below it
score_dist_ma50(close, ma50) ==
    IF ma50.nan \/ ma50.v = 0 THEN 500
    ELSE Clamp(500 + ((ma50.v - 100 * close) * 5000) \div ma50.v)

\* score_momentum(momentum30): 1/2 when flat, more after a fall
score_momentum(momentum) == Clamp(500 - momentum \div 4)

\* score_trend_ma200(close, ma200): 1 above the long average, 0 below
score_trend_ma200(close, ma200) ==
    IF ma200.nan THEN 500 ELSE IF 100 * close >= ma200.v THEN 1000 ELSE 0

\* score_volatility(vol20, cap): calmer is more favourable
score_volatility(vol, cap) ==
    IF cap <= 0 THEN 0 ELSE 1000 - Clamp((vol * 10) \div cap)

----------------------------------------------------------------------------
(* compute_score_at_date (src/backtest.py lines 23-72). *)

NoSnapshot == [kind |-> "None"]
ScoreError == [kind |-> "raised"]
Snapshot(rec) == [kind |-> "snapshot", rec |-> rec]

\* cfg["drawdown_cap"], cfg["volatility_cap"] and the six w[...] of lines
\* 48-62 are there and are numbers (a missing key raises KeyError, a value
\* that is no number raises TypeError)
Scorable(cfg) ==
    /\ {"drawdown_cap", "volatility_cap", "weights"} \subseteq DOMAIN cfg
    /\ cfg["drawdown_cap"].t = "num" /\ cfg["volatility_cap"].t = "num"
    /\ IsMap(cfg["weights"])
    /\ WeightNames \subseteq DOMAIN cfg["weights"].m
    /\ \A n \in WeightNames : cfg["weights"].m[n].t = "num"

\* The weights of drawdown90 and rsi14 applied to each other's sub-score
CompositeCrossed(w, draw_sc, rsi_sc, ma50_sc, mom_sc, trend_sc, vol_sc) ==
    w["drawdown90"].n * rsi_sc + w["rsi14"].n * draw_sc + w["dist_ma50"].n * ma50_sc
    + w["momentum30"].n * mom_sc + w["trend_ma200"].n * trend_sc
    + w["volatility20"].n * vol_sc

\* Lines 56-63, in 1/100000
Composite(w, draw_sc, rsi_sc, ma50_sc, mom_sc, trend_sc, vol_sc) ==
    w["drawdown90"].n * draw_sc + w["rsi14"].n * rsi_sc + w["dist_ma50"].n * ma50_sc
    + w["momentum30"].n * mom_sc + w["trend_ma200"].n * trend_sc
    + w["volatility20"].n * vol_sc

\* Line 67: round(100.0 * composite, 1), in 1/10
EmittedScore(composite) == Round(composite, 100)

\* Lines 30-72 on the truncated rows: the snapshot.  score is in 1/10,
\* rsi14, ma50 and ma200 in 1/100.
ScoreOf(historical_data, cfg) ==
    LET latest == historical_data[Len(historical_data)]
        close == latest.close
        ma50 == RollingMean(historical_data, Ma50Window)
        ma200 == RollingMean(historical_data, Ma200Window)
        rsi14 == OrDefault(compute_rsi(historical_data), 5000)
        drawdown90 == OrDefault(Drawdown90(historical_data), 0)
        vol20 == OrDefault(Vol20(historical_data), 0)
        momentum30 == OrDefault(Momentum30(historical_data), 0)
        composite == Composite(cfg["weights"].m,
                               score_drawdown(drawdown90, cfg["drawdown_cap"].n),
                               score_rsi(rsi14),
                               score_dist_ma50(close, ma50),
                               score_momentum(momentum30),
                               score_trend_ma200(close, ma200),
                               score_volatility(vol20, cfg["volatility_cap"].n))
    IN [date |-> latest.ts, score |-> EmittedScore(composite), close |-> close,
        rsi14 |-> rsi14, ma50 |-> ma50.v, ma200 |-> ma200.v]

\* The whole data frame in the place of its truncation
Untruncated(df, date_idx) == df

\* df.iloc[:date_idx+1] (date_idx is 0-based and not negative)
Truncated(df, date_idx) == SubSeq(df, 1, Min(date_idx + 1, Len(df)))

\* Fewer than 199 rows demanded
LooseGate(historical_data) == Len(historical_data) < MinBars - 1

\* Line 27
TooShort(historical_data) == Len(historical_data) < MinBars

\* compute_score_at_date(df, date_idx, cfg)
compute_score_at_date(df, date_idx, cfg) ==
    LET historical_data == Truncated(df, date_idx)
    IN IF TooShort(historical_data) THEN NoSnapshot
       ELSE IF ~Scorable(cfg) THEN ScoreError
       ELSE Snapshot(ScoreOf(historical_data, cfg))

----------------------------------------------------------------------------
(* The data provider.  market[ticker] is what yf.download meets for the     *)
(* ticker: an exception, or a history, listed since a first day.            *)

WindowDays == 80        \* days from start_date to end_date
LastDay == 400 + WindowDays + 10

Unavailable == [kind |-> "raise", first |-> 0, shape |-> 0]
Listed(first, shape) == [kind |-> "df", first |-> first, shape |-> shape]

\* A day is a trading day unless it falls on one of two days in seven; the
\* close of a day follows one of two shapes; shape 0 has no close (NaN) on
\* any day, the other shapes have none on a few days.
Trading(day) == day % 7 \notin {5, 6}

ClosePrice(shape, day) ==
    IF shape = 1 THEN 100 + ((day * 7) % 11) - 5 + (day \div 60)
    ELSE 140 - (day \div 8) + ((day * 3) % 5)

RECURSIVE HistoryRows(_, _, _)
HistoryRows(day, lastDay, shape) ==
    IF day > lastDay THEN <<>>
    ELSE IF day = lastDay
         THEN IF Trading(day)
              THEN <<[ts |-> day, close |-> ClosePrice(shape, day),
                      valid |-> shape # 0 /\ day % 97 # 0]>>
              ELSE <<>>
         ELSE LET m == (day + lastDay) \div 2
              IN HistoryRows(day, m, shape) \o HistoryRows(m + 1, lastDay, shape)

DownloadError == [kind |-> "raise", rows |-> <<>>]
History(rows) == [kind |-> "df", rows |-> rows]

\* yf.download(ticker, start, end): the rows of the ticker's history from
\* start up to, not including, end
download(ticker, start, end) ==
    IF market[ticker].kind = "raise" THEN DownloadError
    ELSE History(HistoryRows(Max(start, market[ticker].first), Min(end - 1, LastDay),
                             market[ticker].shape))

----------------------------------------------------------------------------
(* BacktestEngine (src/core/backtest.py). *)

None == [kind |-> "None", rows |-> <<>>]
Frame(rows) == [kind |-> "df", rows |-> rows]

\* The return taken one row early
WithEarlyReturn(df, i, rec) ==
    LET future_price == df[i + ForwardBars].close
        current_price == df[i + 1].close
    IN SetItem(rec, "return_30d",
               Round((future_price - current_price) * 10000, current_price))

\* Lines 70-75: the record of index i, the snapshot with its return over
\* the next 30 rows, in 1/100 of a percent
WithReturn(df, i, rec) ==
    LET future_price == df[i + ForwardBars + 1].close
        current_price == df[i + 1].close
    IN SetItem(rec, "return_30d",
               Round((future_price - current_price) * 10000, current_price))

\* Line 70
HasForward(df, i) == i + ForwardBars < Len(df)

\* pd.cut(score, bins=[0, 45, 55, 100], labels=...): the intervals are open
\* on the left and closed on the right; a score in none is NaN
score_category(score) ==
    IF score > 0 /\ score <= 450 THEN "Defavorable (<45)"
    ELSE IF score > 450 /\ score <= 550 THEN "Neutre (45-55)"
    ELSE IF score > 550 /\ score <= 1000 THEN "Favorable (>55)"
    ELSE "NaN"

Categories == {"Defavorable (<45)", "Neutre (45-55)", "Favorable (>55)"}

\* Lines 95-99: the column score_category set on the frame it is given
Categorised(rows) ==
    [k \in DOMAIN rows |-> SetItem(rows[k], "score_category", score_category(rows[k].score))]

\* The number of rows r with P(r)
Count(rows, P(_)) == Cardinality({k \in DOMAIN rows : P(rows[k])})

\* The top of the neutral band counted as favourable
AtLeast55(score) == score >= 550

\* Line 105: results_df["score"] > 55
IsFavorable(score) == score > 550

\* Line 117: results_df["score"] < 45
IsUnfavorable(score) == score < 450

\* round(rows["return_30d"].mean(), 2), in 1/100 of a percent
MeanReturn(rows) ==
    Round(SumOf([k \in DOMAIN rows |-> rows[k].return_30d], 1, Len(rows)), Len(rows))

\* round((rows["return_30d"] > 0).sum() / len(rows) * 100, 1), in 1/10 of a
\* percent
SuccessRate(rows) == Round(1000 * Count(rows, LAMBDA r : r.return_30d > 0), Len(rows))

\* Lines 101-102: the count of each category of the grouped frame (a row
\* whose category is NaN is in no group)
ByCategory(rows) ==
    [c \in Categories |-> [count |-> Count(rows, LAMBDA r : score_category(r.score) = c)]]

\* analyze_results (lines 92-138) on a frame that is not empty: the mapping
\* it returns, without the medians, extremes, deviations and the correlation.
\* The keys favorable and unfavorable are set only when a row is.
Analysis(rows) ==
    LET favorable == SelectSeq(rows, LAMBDA r : IsFavorable(r.score))
        unfavorable == SelectSeq(rows, LAMBDA r : IsUnfavorable(r.score))
        a0 == [by_category |-> ByCategory(rows),
               global |-> [total_signals |-> Len(rows), mean_return |-> MeanReturn(rows),
                           success_rate |-> SuccessRate(rows)]]
        a1 == IF favorable # <<>>
              THEN SetItem(a0, "favorable",
                           [count |-> Len(favorable), mean_return |-> MeanReturn(favorable),
                            success_rate |-> SuccessRate(favorable)])
              ELSE a0
    IN IF unfavorable # <<>>
       THEN SetItem(a1, "unfavorable",
                    [count |-> Len(unfavorable), mean_return |-> MeanReturn(unfavorable)])
       ELSE a1

\* The test of line 89 without its second half
IsNone(results_df) == results_df.kind = "None"

\* Line 89: results_df is None or results_df.empty
NothingToAnalyze(results_df) == results_df.kind = "None" \/ results_df.rows = <<>>

\* What a call of analyze_results gives: the mapping it returns and the
\* frame it was given as the call leaves it, or an exception.  A frame
\* without rows has no column, so results_df["score"] raises KeyError.
AnalyzeResults(results_df) ==
    IF NothingToAnalyze(results_df)
    THEN [raised |-> FALSE, analysis |-> EmptyDict, frame |-> results_df]
    ELSE IF results_df.rows = <<>>
         THEN [raised |-> TRUE, analysis |-> EmptyDict, frame |-> results_df]
         ELSE [raised |-> FALSE, analysis |-> Analysis(results_df.rows),
               frame |-> Frame(Categorised(results_df.rows))]

\* results["ticker"] = ticker (line 159)
Tagged(rows, ticker) == [k \in DOMAIN rows |-> SetItem(rows[k], "ticker", ticker)]

\* pd.concat(all_results, ignore_index=True)
RECURSIVE concat(_)
concat(frames) == IF frames = <<>> THEN <<>> ELSE Head(frames) \o concat(Tail(frames))

----------------------------------------------------------------------------
(* A call of run_backtest or run_multi_ticker_backtest, step by step.  run  *)
(* holds the locals of the call: the ticker list and the position in it,    *)
(* the frame df, the loop index i, the index at evaluated last with its     *)
(* score_data, the records of results, all_results and all_analyses.        *)

\* No call of analyze_results was made since the last run began
NoReport ==
    [called |-> FALSE, input |-> None, raised |-> FALSE, analysis |-> EmptyDict,
     frame |-> None]

NoRun ==
    [pc |-> "idle", mode |-> "none", tickers |-> <<>>, t |-> 0, start_date |-> 0,
     end_date |-> 0, interval_days |-> 0, df |-> <<>>, i |-> 0, at |-> -1,
     visited |-> <<>>, score_data |-> NoSnapshot, results |-> <<>>, all_results |-> <<>>, all_analyses |-> EmptyRel,
     ret |-> [combined |-> None, analyses |-> EmptyRel]]

\* What one run_backtest call alone returned, and for which arguments
Alone(start_date, end_date, interval_days, result) ==
    [start_date |-> start_date, end_date |-> end_date, interval_days |-> interval_days,
     result |-> result]

\* run_backtest(ticker, start_date, end_date, interval_days) called on its own
run_backtest(ticker, start_date, interval_days) ==
    /\ run.pc = "idle"
    /\ run' = [NoRun EXCEPT !.pc = "download", !.mode = "single", !.tickers = <<ticker>>,
                            !.t = 1, !.start_date = start_date,
                            !.end_date = start_date + WindowDays,
                            !.interval_days = interval_days]
    /\ report' = NoReport
    /\ UNCHANGED <<yaml, storeVars, resolved, last, saved, market, engine_cfg, returned, assembly>>

\* run_multi_ticker_backtest(tickers, start_date, end_date), lines 153-156
run_multi_ticker_backtest(tickers, start_date) ==
    /\ run.pc = "idle"
    /\ run' = [NoRun EXCEPT !.pc = "download", !.mode = "multi", !.tickers = tickers,
                            !.t = 1, !.start_date = start_date,
                            !.end_date = start_date + WindowDays,
                            !.interval_days = IntervalDays]
    /\ report' = NoReport
    /\ UNCHANGED <<yaml, storeVars, resolved, last, saved, market, engine_cfg, returned, assembly>>

\* The call after run_backtest has returned result for the ticker at run.t:
\* a call on its own is over; in a multi-ticker call lines 158-163 keep a
\* frame that is not empty, tagged and analysed, and the loop goes on
AfterReturn(result) ==
    LET ticker == run.tickers[run.t]
        kept == result.kind = "df" /\ result.rows # <<>>
        results == Tagged(result.rows, ticker)
        next == IF run.t < Len(run.tickers) THEN "download" ELSE "combine"
    IN IF run.mode = "single"
       THEN [run EXCEPT !.pc = "done", !.results = result.rows]
       ELSE [run EXCEPT !.pc = next, !.t = @ + 1, !.results = <<>>,
                        !.all_results = IF kept THEN Append(@, Categorised(results)) ELSE @,
                        !.all_analyses = IF kept THEN SetItem(@, ticker, Analysis(results))
                                         ELSE @]

ReturnedAfter(result) ==
    IF run.mode = "single"
    THEN SetItem(returned, run.tickers[run.t],
                 Alone(run.start_date, run.end_date, run.interval_days, result))
    ELSE returned

\* The exception of yf.download let through
DownloadRaised == [run EXCEPT !.pc = "aborted"]

\* Lines 48-50: the exception of yf.download is caught and run_backtest
\* returns None
DownloadFailed == AfterReturn(None)

\* The records of the ticker's last call, kept by the engine
KeptResults ==
    IF run.tickers[run.t] \in DOMAIN returned
    THEN returned[run.tickers[run.t]].result.rows
    ELSE <<>>

\* Line 62: results = [], a list of the call
NoResults == <<>>

\* Lines 44-63: the download from 400 days before start_date; an exception
\* or an empty frame makes run_backtest return None
Download ==
    /\ run.pc = "download"
    /\ LET got == download(run.tickers[run.t], run.start_date - ExtendedDays, run.end_date)
           df == dropna(got.rows)
       IN IF got.kind = "raise" \/ got.rows = <<>>
          THEN /\ run' = IF got.kind = "raise" THEN DownloadFailed ELSE AfterReturn(None)
               /\ returned' = ReturnedAfter(None)
          ELSE /\ run' = [run EXCEPT !.pc = "loop", !.df = df,
                                     !.i = searchsorted(df, run.start_date),
                                     !.at = -1, !.visited = <<>>,
                                     !.score_data = NoSnapshot, !.results = NoResults]
               /\ UNCHANGED returned
    /\ UNCHANGED <<yaml, storeVars, resolved, last, saved, market, engine_cfg, report, assembly>>

\* A configuration resolved from the store as it is now, which the engine
\* does not read
resolved_now == GetConfig(yaml, "none", config_tbl, formulas_tbl, tickers_tbl).config

\* Line 24: self.config, the dictionary the engine was constructed on
self_config == engine_cfg.config

\* Lines 66-75: one pass of the loop, at index run.i
Evaluate ==
    /\ run.pc = "loop"
    /\ run.i < Len(run.df)
    /\ LET score_data == compute_score_at_date(run.df, run.i, self_config)
       IN run' = IF score_data.kind = "raised"
                 THEN [run EXCEPT !.pc = "aborted", !.at = run.i, !.score_data = score_data]
                 ELSE [run EXCEPT !.at = run.i, !.i = @ + run.interval_days,
                                  !.visited = Append(@, run.i),
                                  !.score_data = score_data,
                                  !.results =
                                      IF score_data.kind = "snapshot" /\ HasForward(run.df, run.i)
                                      THEN Append(@, WithReturn(run.df, run.i, score_data.rec))
                                      ELSE @]
    /\ UNCHANGED <<yaml, storeVars, resolved, last, saved, market, engine_cfg, returned, report, assembly>>

\* Line 77: the loop is over, run_backtest returns the frame of its records
LoopEnd ==
    /\ run.pc = "loop"
    /\ run.i >= Len(run.df)
    /\ run' = AfterReturn(Frame(run.results))
    /\ returned' = ReturnedAfter(Frame(run.results))
    /\ UNCHANGED <<yaml, storeVars, resolved, last, saved, market, engine_cfg, report, assembly>>

\* Lines 165-174: the combined frame and the analysis under "_global", or
\* (None, {}) when no ticker gave a frame
Combine ==
    /\ run.pc = "combine"
    /\ run' = IF run.all_results # <<>>
              THEN LET combined == concat(run.all_results)
                   IN [run EXCEPT !.pc = "done",
                                  !.all_analyses = SetItem(@, "_global", Analysis(combined)),
                                  !.ret = [combined |-> Frame(Categorised(combined)),
                                           analyses |-> SetItem(run.all_analyses, "_global",
                                                                Analysis(combined))]]
              ELSE [run EXCEPT !.pc = "done", !.ret = [combined |-> None, analyses |-> EmptyRel]]
    /\ UNCHANGED <<yaml, storeVars, resolved, last, saved, market, engine_cfg, returned, report, assembly>>

\* The caller has its value; the next call can start
Return ==
    /\ run.pc = "done"
    /\ run' = NoRun
    /\ UNCHANGED <<yaml, storeVars, resolved, last, saved, market, engine_cfg, returned, report, assembly>>

\* analyze_results(results_df), called by the holder of the engine once a
\* run is over
analyze_results(results_df) ==
    /\ run.pc \in {"idle", "done"}
    /\ LET out == AnalyzeResults(results_df)
       IN report' = [called |-> TRUE, input |-> results_df, raised |-> out.raised,
                     analysis |-> out.analysis, frame |-> out.frame]
    /\ UNCHANGED <<yaml, storeVars, resolved, last, saved, market, engine_cfg, run, returned,
                   assembly>>

\* Nothing was assembled
NoAssembly == [done |-> FALSE, sub |-> [n \in WeightNames |-> 0], score |-> 0]

\* Lines 55-67 of compute_score_at_date on the sub-scores assembly.sub (one
\* per weight, in 1/1000) under the engine's configuration
Assemble ==
    /\ ~assembly.done
    /\ engine_cfg.status = "ok"
    /\ Scorable(engine_cfg.config)
    /\ LET sc == assembly.sub
           composite == Composite(engine_cfg.config["weights"].m, sc["drawdown90"],
                                  sc["rsi14"], sc["dist_ma50"], sc["momentum30"],
                                  sc["trend_ma200"], sc["volatility20"])
       IN assembly' = [assembly EXCEPT !.done = TRUE, !.score = EmittedScore(composite)]
    /\ UNCHANGED <<yaml, storeVars, resolved, last, saved, market, engine_cfg, run, returned,
                   report>>

----------------------------------------------------------------------------
(* Specifications. *)

\* A store as init_database leaves it: five empty relations
StoreInit ==
    /\ config_tbl = <<>>
    /\ formulas_tbl = EmptyRel
    /\ tickers_tbl = <<>>
    /\ weight_profiles = EmptyRel
    /\ profile_weights = EmptyRel
    /\ profile_seq = 0
    /\ resolved = NoResult
    /\ last = NoCall
    /\ saved = EmptyRel

BtIdle ==
    /\ market = EmptyRel
    /\ engine_cfg = NoResult
    /\ run = NoRun
    /\ returned = EmptyRel
    /\ report = NoReport
    /\ assembly = NoAssembly

\* The resolver over a store of overrides, one formula and one ticker
Init ==
    /\ yaml \in YamlFiles
    /\ StoreInit
    /\ BtIdle

Next ==
    \/ \E key \in ConfigKeys, value \in ConfigValues : set_config_value(key, value)
    \/ set_formula("f1", "close > ma50", 30)
    \/ delete_formula("f1")
    \/ add_ticker("S1")
    \/ \E enabled \in BOOLEAN : toggle_ticker("S1", enabled)
    \/ \E failAt \in FailPoints : get_config(failAt)

Spec == Init /\ [][Next]_vars

\* The resolver over a store whose tickers relation alone is written
TickerNext ==
    \/ \E symbol \in Symbols : add_ticker(symbol)
    \/ \E symbol \in Symbols : remove_ticker(symbol)
    \/ \E symbol \in Symbols, enabled \in BOOLEAN : toggle_ticker(symbol, enabled)
    \/ \E failAt \in FailPoints : get_config(failAt)

TickerSpec == Init /\ [][TickerNext]_vars

\* Day 398 is no trading day, day 400 is the second one after it
StartDates == {398, 400}

Tickers == {"AAA", "BBB"}
TickerLists == {<<"AAA", "BBB">>}

\* What the provider has for a ticker: nothing it can serve, no row, rows
\* without a close, a history since day 300, since day 128, since day 1
Outcomes ==
    {Unavailable, Listed(LastDay + 1, 1), Listed(390, 0), Listed(300, 1), Listed(128, 2),
     Listed(1, 1)}

\* Configurations the resolver gives: the defaults, and a file with an
\* override of one weight
EngineConfigs ==
    {GetConfig(NoFile, "none", <<>>, EmptyRel, <<>>),
     GetConfig(File([k \in {"drawdown_cap", "weights"} |->
                        IF k = "drawdown_cap" THEN Num(30)
                        ELSE Map([n \in {"rsi14"} |-> Num(40)])]),
               "none", <<[key |-> <<"weights", "rsi14">>, value |-> json_dumps(Num(50))]>>,
               EmptyRel, <<>>)}

\* backtest_v2: the engine is built on the resolved configuration, then runs
BacktestInit ==
    /\ yaml = NoFile
    /\ StoreInit
    /\ market \in [Tickers -> Outcomes]
    /\ engine_cfg \in EngineConfigs
    /\ run = NoRun
    /\ returned = EmptyRel
    /\ report = NoReport
    /\ assembly = NoAssembly

BacktestNext ==
    \/ \E ticker \in Tickers : run_backtest(ticker, 398, IntervalDays)
    \/ \E tickers \in TickerLists, start_date \in StartDates :
          run_multi_ticker_backtest(tickers, start_date)
    \/ Download
    \/ Evaluate
    \/ LoopEnd
    \/ Combine
    \/ Return

BacktestSpec == BacktestInit /\ [][BacktestNext]_vars

\* The analyzer on frames of a few records, whose scores (in 1/10) lie on
\* and around the edges of the bands and whose returns (in 1/100 of a
\* percent) are negative, zero and positive
MaxRecords == 2

Scores == {0, 1, 449, 450, 451, 549, 550, 551, 1000}
Returns == {-300, 0, 500}
Records == [score : Scores, return_30d : Returns]
AnalyzerInputs ==
    {None} \cup {Frame(rows) : rows \in UNION {[1 .. n -> Records] : n \in 0 .. MaxRecords}}

AnalyzerInit ==
    /\ yaml = NoFile
    /\ StoreInit
    /\ market = EmptyRel
    /\ engine_cfg = GetConfig(NoFile, "none", <<>>, EmptyRel, <<>>)
    /\ run = NoRun
    /\ returned = EmptyRel
    /\ report \in {[NoReport EXCEPT !.input = results_df] : results_df \in AnalyzerInputs}
    /\ assembly = NoAssembly

\* The caller has the frame analysed, once
AnalyzerNext == ~report.called /\ analyze_results(report.input)

AnalyzerSpec == AnalyzerInit /\ [][AnalyzerNext]_vars

\* Runs over histories that give no record (nothing served, no row, rows
\* without a close, too few rows) or a few, and the analyzer on what
\* run_backtest returned
SparseOutcomes ==
    {Unavailable, Listed(LastDay + 1, 1), Listed(390, 0), Listed(300, 1), Listed(128, 2)}

EmptyInit ==
    /\ yaml = NoFile
    /\ StoreInit
    /\ market \in [Tickers -> SparseOutcomes]
    /\ engine_cfg = GetConfig(NoFile, "none", <<>>, EmptyRel, <<>>)
    /\ run = NoRun
    /\ returned = EmptyRel
    /\ report = NoReport
    /\ assembly = NoAssembly

EmptyNext ==
    \/ \E ticker \in Tickers : run_backtest(ticker, 398, IntervalDays)
    \/ \E tickers \in TickerLists : run_multi_ticker_backtest(tickers, 398)
    \/ \E ticker \in Tickers :
          ticker \in DOMAIN returned /\ analyze_results(returned[ticker].result)
    \/ Download
    \/ Evaluate
    \/ LoopEnd
    \/ Combine
    \/ Return

EmptySpec == EmptyInit /\ [][EmptyNext]_vars

\* The walk of run_backtest: calls on their own, from start dates before a
\* trading day, on one, and after the last row, with several intervals, and
\* analyze_results on what they returned
WalkStarts == {398, 400, 600}
Intervals == {7, 30}
WalkOutcomes == {Listed(390, 0), Listed(128, 2)}

WalkInit ==
    /\ yaml = NoFile
    /\ StoreInit
    /\ market \in [Tickers -> WalkOutcomes]
    /\ engine_cfg = GetConfig(NoFile, "none", <<>>, EmptyRel, <<>>)
    /\ run = NoRun
    /\ returned = EmptyRel
    /\ report = NoReport
    /\ assembly = NoAssembly

WalkNext ==
    \/ \E ticker \in Tickers, start_date \in WalkStarts, interval_days \in Intervals :
          run_backtest(ticker, start_date, interval_days)
    \/ \E ticker \in Tickers :
          ticker \in DOMAIN returned /\ analyze_results(returned[ticker].result)
    \/ Download
    \/ Evaluate
    \/ LoopEnd
    \/ Return

WalkSpec == WalkInit /\ [][WalkNext]_vars

\* The score assembler on the configurations resolved from a file and a
\* store of overrides of weights and at most one formula, and on sub-scores
\* at the ends of [0, 1]
OverrideRows ==
    {[key |-> <<"weights", n>>, value |-> json_dumps(Num(v))] :
        n \in {"rsi14", "drawdown90"}, v \in {0, 50}}

\* Stores of config: rows of distinct keys, as INSERT OR REPLACE keeps them
ConfigStores ==
    {ct \in UNION {[1 .. n -> OverrideRows] : n \in 0 .. MaxRows} :
        \A j, k \in DOMAIN ct : ct[j].key = ct[k].key => j = k}

FormulaStores == {EmptyRel, [n \in {"f1"} |-> [formula |-> "close > ma50", weight |-> 90]]}

ScoreInit ==
    /\ yaml \in YamlFiles
    /\ config_tbl \in ConfigStores
    /\ formulas_tbl \in FormulaStores
    /\ tickers_tbl = <<>>
    /\ weight_profiles = EmptyRel
    /\ profile_weights = EmptyRel
    /\ profile_seq = 0
    /\ last = NoCall
    /\ saved = EmptyRel
    /\ resolved = GetConfig(yaml, "none", config_tbl, formulas_tbl, tickers_tbl)
    /\ engine_cfg = resolved
    /\ market = EmptyRel
    /\ run = NoRun
    /\ returned = EmptyRel
    /\ report = NoReport
    /\ assembly \in {[NoAssembly EXCEPT !.sub = sub] : sub \in [WeightNames -> {0, 1000}]}

ScoreNext == Assemble

ScoreSpec == ScoreInit /\ [][ScoreNext]_vars

\* Weight profiles and the formulas they are applied to
ProfileInit ==
    /\ yaml = NoFile
    /\ StoreInit
    /\ BtIdle

ProfileNext ==
    \/ \E name \in ProfileNames : create_weight_profile(name)
    \/ \E profile_id \in ProfileIds : set_active_profile(profile_id)
    \/ \E profile_id \in ProfileIds, weights \in WeightSets :
          save_profile_weights(profile_id, weights)
    \/ \E profile_id \in ProfileIds, name \in ProfileNames :
          update_profile_info(profile_id, name)
    \/ \E profile_id \in ProfileIds : delete_weight_profile(profile_id)
    \/ \E name \in FormulaNames, weight \in Weights : set_formula(name, "close > ma50", weight)
    \/ \E name \in FormulaNames, weight \in Weights : set_formula_weight(name, weight)
    \/ \E name \in FormulaNames : delete_formula(name)

ProfileSpec == ProfileInit /\ [][ProfileNext]_vars

\* The weights of the formulas saved to a profile and brought back
SnapshotInit ==
    /\ yaml = NoFile
    /\ StoreInit
    /\ BtIdle

SnapshotNext ==
    \/ \E name \in FormulaNames, weight \in Weights : set_formula(name, "close > ma50", weight)
    \/ \E name \in FormulaNames, weight \in Weights : set_formula_weight(name, weight)
    \/ \E name \in FormulaNames : delete_formula(name)
    \/ create_weight_profile("p1")
    \/ save_current_weights_to_profile(1)
    \/ \E weights \in WeightSets : save_profile_weights(1, weights)
    \/ set_active_profile(1)

SnapshotSpec == SnapshotInit /\ [][SnapshotNext]_vars

\* set_config_value with values of every type, strings that are JSON text
\* among them, under plain and dotted keys, and get_config
RoundTripKeys == {<<"note">>, <<"drawdown_cap">>, <<"weights", "rsi14">>}
RoundTripValues == {Num(50), Bool(TRUE), List(<<"F1">>), Map([rsi14 |-> Num(50)]),
                    Str("abc"), Str("0.7"), Str("true"), Str("null")}

RoundTripInit ==
    /\ yaml = NoFile
    /\ StoreInit
    /\ BtIdle

RoundTripNext ==
    \/ \E key \in RoundTripKeys, value \in RoundTripValues : set_config_value(key, value)
    \/ get_config("none")

RoundTripSpec == RoundTripInit /\ [][RoundTripNext]_vars

\* backtest_v2 while the store is written: the configuration is resolved
\* from a store with one formula and one profile, the engine is built on
\* it, and overrides, activations and ticker changes are written to the
\* store at any point of the runs
StoredFormulas == [n \in {"f1"} |-> [formula |-> "close > ma50", weight |-> 30]]

BuiltOn == GetConfig(NoFile, "none", <<>>, StoredFormulas, <<>>)

WrittenInit ==
    /\ yaml = NoFile
    /\ config_tbl = <<>>
    /\ formulas_tbl = StoredFormulas
    /\ tickers_tbl = <<>>
    /\ weight_profiles = [i \in {1} |-> [name |-> "p1", is_active |-> FALSE]]
    /\ profile_weights = [k \in {<<1, "f1">>} |-> 90]
    /\ profile_seq = 1
    /\ resolved = NoResult
    /\ last = NoCall
    /\ saved = EmptyRel
    /\ market = [t \in Tickers |-> IF t = "AAA" THEN Listed(128, 2) ELSE Listed(1, 1)]
    /\ engine_cfg = BuiltOn
    /\ run = NoRun
    /\ returned = EmptyRel
    /\ report = NoReport
    /\ assembly = NoAssembly

WrittenNext ==
    \/ run_backtest("AAA", 398, IntervalDays)
    \/ run_multi_ticker_backtest(<<"AAA", "BBB">>, 398)
    \/ Download
    \/ Evaluate
    \/ LoopEnd
    \/ Combine
    \/ Return
    \/ set_config_value(<<"weights", "rsi14">>, Num(50))
    \/ set_config_value(<<"drawdown_cap">>, Num(30))
    \/ set_active_profile(1)
    \/ add_ticker("S1")
    \/ toggle_ticker("S1", FALSE)

WrittenSpec == WrittenInit /\ [][WrittenNext]_vars

\* The resolver over formulas, the weights of a profile and two overrides
FormulaKeys == {<<"weights", "rsi14">>, <<"drawdown_cap", "x">>}

FormulaInit ==
    /\ yaml \in YamlFiles
    /\ StoreInit
    /\ BtIdle

FormulaNext ==
    \/ \E key \in FormulaKeys : set_config_value(key, Num(50))
    \/ \E name \in FormulaNames, weight \in Weights : set_formula(name, "close > ma50", weight)
    \/ \E name \in FormulaNames, weight \in Weights : set_formula_weight(name, weight)
    \/ \E name \in FormulaNames : delete_formula(name)
    \/ create_weight_profile("p1")
    \/ \E weights \in WeightSets : save_profile_weights(1, weights)
    \/ set_active_profile(1)
    \/ get_config("none")

FormulaSpec == FormulaInit /\ [][FormulaNext]_vars

----------------------------------------------------------------------------
(* Weight profiles (ProfileSpec). *)

\* C4: in every reachable state at most one weight profile has is_active
\* set; and right after set_active_profile(p) for an existing profile p, p is
\* active and every other profile is inactive.
C4_AtMostOneActive ==
    /\ Cardinality(ActiveIds) <= 1
    /\ (last.op = "set_active_profile" /\ last.profile_id \in DOMAIN weight_profiles)
          => ActiveIds = {last.profile_id}

\* C4's case: set_active_profile(p) was just called while another profile,
\* which still exists, was the active one.
C4_Witness ==
    /\ last.op = "set_active_profile"
    /\ last.profile_id \in DOMAIN weight_profiles
    /\ \E q \in DOMAIN weight_profiles : q # last.profile_id /\ last.active = {q}

\* C5: right after set_active_profile(P), every formula named in P's saved
\* weights has P's recorded weight, every other formula has the weight it had
\* before the call, and the formulas relation has the rows it had (none
\* created, none deleted, no formula text changed).
C5_ActivationOverwritesExactly ==
    last.op = "set_active_profile" =>
        LET pw == get_profile_weights(last.profile_id)
        IN /\ DOMAIN formulas_tbl = DOMAIN last.formulas
           /\ \A n \in DOMAIN formulas_tbl :
                 /\ formulas_tbl[n].formula = last.formulas[n].formula
                 /\ formulas_tbl[n].weight =
                       IF n \in DOMAIN pw THEN pw[n] ELSE last.formulas[n].weight

\* C5's case: the activated profile names a formula whose weight it changes,
\* leaves out a formula of the store, and names a formula the store lacks.
C5_Witness ==
    /\ last.op = "set_active_profile"
    /\ last.profile_id \in DOMAIN weight_profiles
    /\ LET pw == get_profile_weights(last.profile_id)
       IN /\ \E n \in DOMAIN pw \cap DOMAIN formulas_tbl : last.formulas[n].weight # pw[n]
          /\ DOMAIN formulas_tbl \ DOMAIN pw # {}
          /\ DOMAIN pw \ DOMAIN formulas_tbl # {}

\* C26: right after set_active_profile with an id no profile has, the
\* active profile is the one that was active before the call and every
\* formula has the weight it had
C26_UnknownProfileChangesNothing ==
    (last.op = "set_active_profile" /\ last.profile_id \notin DOMAIN weight_profiles) =>
        /\ ActiveIds = last.active
        /\ formulas_tbl = last.formulas

\* set_active_profile(p) was just called, p having weights saved by
\* save_current_weights_to_profile and not replaced since
Restored ==
    /\ last.op = "set_active_profile"
    /\ last.profile_id \in DOMAIN saved

\* C25: right after set_active_profile(p), every formula that existed when
\* save_current_weights_to_profile(p) was called and still exists has the
\* weight it had then, whatever set_formula_weight did in between; when the
\* formulas were as they had been saved, the call changed no weight; and
\* right after save_profile_weights the profile's rows are the weights given,
\* none of the rows before among them
C25_SnapshotAndRestore ==
    /\ Restored =>
          LET snap == saved[last.profile_id]
          IN /\ \A n \in DOMAIN snap \cap DOMAIN formulas_tbl :
                   formulas_tbl[n].weight = snap[n]
             /\ snap = [n \in DOMAIN last.formulas |-> last.formulas[n].weight] =>
                   formulas_tbl = last.formulas
    /\ last.op = "save_profile_weights" =>
          get_profile_weights(last.profile_id) = last.weights

\* weights were saved, one of them was changed, a formula was deleted, and
\* set_active_profile brought the changed weight back
C25_Witness ==
    /\ Restored
    /\ LET snap == saved[last.profile_id]
       IN /\ \E n \in DOMAIN snap \cap DOMAIN last.formulas :
                last.formulas[n].weight # snap[n]
          /\ DOMAIN snap \ DOMAIN formulas_tbl # {}

\* C21: right after delete_weight_profile(p) no row of profile_weights has
\* profile_id p, and in every reachable state every row of profile_weights
\* names an existing weight profile
C21_DeletionCascades ==
    /\ last.op = "delete_weight_profile" =>
          DOMAIN get_profile_weights(last.profile_id) = {}
    /\ \A k \in DOMAIN profile_weights : k[1] \in DOMAIN weight_profiles

----------------------------------------------------------------------------
(* The resolver (Spec, TickerSpec). *)

Range(q) == {q[i] : i \in DOMAIN q}

\* The symbols of the store's rows with enabled = 1
EnabledSet == {tickers_tbl[i].symbol : i \in {j \in DOMAIN tickers_tbl : tickers_tbl[j].enabled}}

\* The rows of config whose key is key
RowsOf(key) == {i \in DOMAIN config_tbl : config_tbl[i].key = key}

\* The value a stored text stands for: its JSON decoding, else the string
Decoded(text) == IF text.k = "json" THEN text.val ELSE Str(text.s)

\* C8: after any sequence of add_ticker, remove_ticker and toggle_ticker, a
\* resolution that read the store gives exactly the store's enabled tickers
\* when there is one (each once, none from the file), and the file's list
\* (or no list, when the file has none) when the store has no enabled ticker.
C8_TickerListFromStoreOrFile ==
    (resolved.status = "ok" /\ resolved.err = "none") =>
        LET file == load_yaml_config(yaml)
        IN IF EnabledSet # {}
           THEN /\ "tickers" \in DOMAIN resolved.config
                /\ resolved.config["tickers"].t = "list"
                /\ Range(resolved.config["tickers"].l) = EnabledSet
                /\ Len(resolved.config["tickers"].l) = Cardinality(EnabledSet)
           ELSE /\ ("tickers" \in DOMAIN resolved.config) <=> ("tickers" \in DOMAIN file)
                /\ "tickers" \in DOMAIN file => resolved.config["tickers"] = file["tickers"]

\* C8's case: the file lists tickers, the store holds a disabled ticker and
\* an enabled one, and the resolution shows the enabled one alone.
C8_Witness ==
    /\ resolved.status = "ok" /\ resolved.err = "none"
    /\ "tickers" \in DOMAIN load_yaml_config(yaml)
    /\ Len(tickers_tbl) = 2
    /\ Cardinality(EnabledSet) = 1
    /\ Range(resolved.config["tickers"].l) = EnabledSet

\* C9: when a store access fails during resolution (connecting, or reading
\* config, formulas or tickers), get_config does not raise; what it returns
\* has every key of the defaults and the file, is exactly the defaults and
\* the file when the failure came before any override row was read, and in
\* any case holds the default or file value of every key no override names.
C9_StoreFailureFallsBack ==
    resolved.err = "db" =>
        /\ resolved.status = "ok"
        /\ LET base == BaseConfig(yaml).d
           IN /\ DOMAIN base \subseteq DOMAIN resolved.config
              /\ resolved.at \in {"connect", "config"} => resolved.config = base
              /\ \A k \in DOMAIN base :
                    (\A i \in DOMAIN config_tbl :
                        config_tbl[i].key[1] # k /\ Join(config_tbl[i].key) # k)
                    => resolved.config[k] = base[k]

\* C9's case: the store holds an override, a formula and an enabled ticker,
\* the file is present, and the connection failed.
C9_Witness ==
    /\ resolved.err = "db" /\ resolved.at = "connect"
    /\ resolved.status = "ok"
    /\ yaml.state = "ok"
    /\ config_tbl # <<>> /\ EnabledSet # {} /\ DOMAIN formulas_tbl # {}

\* C6: after set_config_value("weights.rsi14", 0.5), with no other override
\* naming weights, the resolved configuration has weights.rsi14 = 0.5 and
\* each of the five sibling weights has the file's value or, failing that,
\* the default.
C6_DottedOverrideSetsItsLeaf ==
    (/\ resolved.status = "ok" /\ resolved.err # "db"
     /\ config_tbl # <<>>
     /\ config_tbl[Len(config_tbl)] =
            [key |-> <<"weights", "rsi14">>, value |-> json_dumps(Num(50))]
     /\ \A i \in 1 .. (Len(config_tbl) - 1) : config_tbl[i].key[1] # "weights")
    => LET w == resolved.config["weights"]
       IN /\ IsMap(w)
          /\ w.m["rsi14"] = Num(50)
          /\ \A n \in WeightNames \ {"rsi14"} : w.m[n] = BaseConfig(yaml).d["weights"].m[n]

\* The value the layered precedence gives the top-level key k
ExpectedScalar(k) ==
    IF RowsOf(<<k>>) # {} THEN Decoded(config_tbl[CHOOSE i \in RowsOf(<<k>>) : TRUE].value)
    ELSE IF k \in DOMAIN load_yaml_config(yaml) THEN load_yaml_config(yaml)[k]
    ELSE Defaults[k]

\* The value the layered precedence gives the weight n
ExpectedWeight(n) ==
    LET file == load_yaml_config(yaml)
    IN IF RowsOf(<<"weights", n>>) # {}
       THEN Decoded(config_tbl[CHOOSE i \in RowsOf(<<"weights", n>>) : TRUE].value)
       ELSE IF "weights" \in DOMAIN file /\ IsMap(file["weights"])
               /\ n \in DOMAIN file["weights"].m
            THEN file["weights"].m[n]
            ELSE DefaultWeights[n]

\* C7: for every recognized key (drawdown_cap, volatility_cap, data_period,
\* each of the six weights) the resolved value is the store's override when
\* the store has one for the key, else the file's value when the file
\* defines the key, else the default.  (Stated for stores with no override
\* of the weights mapping as a whole.)
C7_LayeredPrecedence ==
    (/\ resolved.status = "ok" /\ resolved.err # "db"
     /\ RowsOf(<<"weights">>) = {})
    => /\ \A k \in {"drawdown_cap", "volatility_cap", "data_period"} :
             resolved.config[k] = ExpectedScalar(k)
       /\ \A n \in WeightNames : resolved.config["weights"].m[n] = ExpectedWeight(n)

\* The row of config written last
LastRow == config_tbl[Len(config_tbl)]

\* The value set_config_value was given, from the text it stored (none of
\* the strings given here is the JSON text of another value)
Given(text) == IF text.k = "json" THEN text.val ELSE Str(text.s)

\* The configuration resolved last shows the store as it is: the value of
\* the override written last under its key, the enabled tickers when there
\* are some, the weight of every formula
Reflected ==
    /\ config_tbl # <<>> =>
          get_config_value(resolved.config, LastRow.key, Null) = Given(LastRow.value)
    /\ EnabledSymbols(tickers_tbl) # <<>> =>
          /\ "tickers" \in DOMAIN resolved.config
          /\ resolved.config["tickers"] = List(EnabledSymbols(tickers_tbl))
    /\ DOMAIN formulas_tbl # {} =>
          /\ "formula_weights" \in DOMAIN resolved.config
          /\ resolved.config["formula_weights"]
                = Map([n \in DOMAIN formulas_tbl |-> Num(formulas_tbl[n].weight)])

\* C17: no cached staleness.  A configuration resolved since the last write
\* (every write clears resolved) without a failure of the store reflects the
\* writes; a call of get_config leaves the store as it is, and gives what the
\* call before it gave when no write came between and the store failed at
\* the same point or not at all
C17_NoStaleness ==
    /\ [](resolved.status = "ok" /\ resolved.err # "db" => Reflected)
    /\ [][resolved'.status # "none" =>
             /\ UNCHANGED storeVars
             /\ (resolved.status # "none" /\ resolved'.at = resolved.at) =>
                    resolved' = resolved]_vars

\* The rows of config applied one by one, a row whose merge raises being
\* passed over
RECURSIVE ApplyEach(_, _)
ApplyEach(config, rows) ==
    IF rows = <<>> THEN config
    ELSE LET r == ApplyRow(config, Head(rows))
         IN ApplyEach(IF r.ok THEN r.d ELSE config, Tail(rows))

\* C23: in a configuration resolved without a failure of the store, every
\* row of config that can be merged is applied, the formulas and
\* formula_weights keys are set when the store holds a formula and the
\* enabled tickers of the store are listed, whether or not another row of
\* config cannot be merged
C23_RowsAppliedIndependently ==
    (resolved.status = "ok" /\ resolved.err # "db") =>
        resolved.config
          = WithTickers(WithFormulas(ApplyEach(BaseConfig(yaml).d, config_tbl),
                                     formulas_tbl),
                        tickers_tbl)

\* C24: set_config_value(k, v) followed by get_config_value(k) gives v, of
\* the same type, for plain and dotted keys and values of every type,
\* strings that are JSON text among them
C24_OverrideRoundTrip ==
    (last.op = "set_config_value" /\ resolved.status = "ok") =>
        get_config_value(resolved.config, last.key, Null) = last.value

\* key p is the first parts of key q
IsPrefix(p, q) == Len(p) <= Len(q) /\ SubSeq(q, 1, Len(p)) = p

\* No row written after row i is about the same key, a part of its path or
\* a key below it
Unshadowed(i) ==
    \A j \in DOMAIN config_tbl :
        j > i => /\ ~IsPrefix(config_tbl[j].key, config_tbl[i].key)
                 /\ ~IsPrefix(config_tbl[i].key, config_tbl[j].key)

\* The dotted keys of the model, as the flat strings they are stored under
DottedNames == {Join(key) : key \in {k \in ConfigKeys : Len(k) > 1}}

\* C19: for every row of config with a dotted key (that no later row
\* overrides), a configuration resolved without a failure of the store holds
\* the row's value at the nested path of its parts, whether the stored text
\* decodes as JSON or not, and no key of the resolved mapping contains a dot
C19_DottedRowsAreNested ==
    (resolved.status = "ok" /\ resolved.err # "db") =>
        /\ \A i \in DOMAIN config_tbl :
              (Len(config_tbl[i].key) > 1 /\ Unshadowed(i)) =>
                  get_config_value(resolved.config, config_tbl[i].key, Null)
                    = Given(config_tbl[i].value)
        /\ DOMAIN resolved.config \cap DottedNames = {}

----------------------------------------------------------------------------
(* The walk-forward simulator (BacktestSpec). *)

\* The loop has evaluated index run.at of run.df
Evaluated == run.pc = "loop" /\ run.at >= 0

\* Series that agree with df on rows 0..i: df cut after row i, cut one row
\* later, with every later close changed, and df with one more row
Variants(df, i) ==
    {SubSeq(df, 1, i + 1),
     SubSeq(df, 1, Min(i + 2, Len(df))),
     [k \in DOMAIN df |-> IF k > i + 1 THEN [df[k] EXCEPT !.close = 2 * @ + 1] ELSE df[k]],
     Append(df, [ts |-> df[Len(df)].ts + 1, close |-> 1, valid |-> TRUE])}

\* C1: the snapshot computed at an evaluated index i on the series is the
\* one computed at i on every series that agrees with it on rows 0..i and
\* is shorter, longer or different after i (no lookahead)
C1_NoLookahead ==
    Evaluated =>
        \A other \in Variants(run.df, run.at) :
            compute_score_at_date(other, run.at, engine_cfg.config) = run.score_data

\* a snapshot was computed at an index that has rows after it
C1_Witness ==
    /\ Evaluated
    /\ run.score_data.kind = "snapshot"
    /\ run.at + 1 < Len(run.df)
    /\ Cardinality(Variants(run.df, run.at)) = 4

\* The 0-based index of the row of date in df
IndexOf(df, date) == searchsorted(df, date)

\* C2: the evaluation at index i gives no snapshot exactly when i <= 198
\* (fewer than 200 rows up to i) and a snapshot when i >= 199, and no record
\* of the run is of an index below 199
C2_Gating ==
    Evaluated =>
        /\ (run.score_data.kind = "None") <=> (run.at <= MinBars - 2)
        /\ (run.score_data.kind = "snapshot") <=> (run.at >= MinBars - 1)
        /\ \A k \in DOMAIN run.results :
              IndexOf(run.df, run.results[k].date) >= MinBars - 1

\* index 198, the last with fewer than 200 rows, was evaluated on a series
\* of more than 200 rows and gave no snapshot
C2_Witness ==
    /\ Evaluated
    /\ Len(run.df) > MinBars
    /\ run.at = MinBars - 2
    /\ run.score_data.kind = "None"

\* A record of the evaluated index was emitted
Emitted ==
    /\ run.results # <<>>
    /\ run.results[Len(run.results)].date = run.df[run.at + 1].ts

\* C3: a record is emitted for a visited index i iff a snapshot is produced
\* at i and i + 30 < length; it carries the return from close[i] to
\* close[i + 30], and every record carries a return_30d
C3_RecordIffForwardWindow ==
    Evaluated =>
        /\ Emitted <=> (run.score_data.kind = "snapshot"
                        /\ run.at + ForwardBars < Len(run.df))
        /\ Emitted =>
              LET rec == run.results[Len(run.results)]
                  now == run.df[run.at + 1].close
                  then == run.df[run.at + ForwardBars + 1].close
              IN /\ rec.return_30d = Round((then - now) * 10000, now)
                 /\ [k \in DOMAIN rec \ {"return_30d"} |-> rec[k]] = run.score_data.rec
        /\ \A k \in DOMAIN run.results : "return_30d" \in DOMAIN run.results[k]

\* after records were emitted, a snapshot in the last 30 rows was skipped
C3_Witness ==
    /\ Evaluated
    /\ run.score_data.kind = "snapshot"
    /\ run.at + ForwardBars >= Len(run.df)
    /\ run.results # <<>>
    /\ ~Emitted

\* The columns run_backtest gives a record
Record(rec) == [k \in DOMAIN rec \ {"ticker", "score_category"} |-> rec[k]]

\* The records of ticker in the combined frame, in order
RecordsOf(combined, ticker) ==
    LET mine == SelectSeq(combined.rows, LAMBDA r : r.ticker = ticker)
    IN [k \in DOMAIN mine |-> Record(mine[k])]

\* ticker was run alone over the dates of the multi-ticker call
RanAlone(ticker) ==
    /\ ticker \in DOMAIN returned
    /\ returned[ticker].start_date = run.start_date
    /\ returned[ticker].end_date = run.end_date
    /\ returned[ticker].interval_days = run.interval_days

\* run_backtest alone gave ticker no record
FailedAlone(ticker) ==
    returned[ticker].result.kind = "None" \/ returned[ticker].result.rows = <<>>

----------------------------------------------------------------------------
(* The analyzer (AnalyzerSpec). *)

\* analyze_results was called on a frame that holds records
Analyzed == report.called /\ report.input.kind = "df" /\ report.input.rows # <<>>

\* The records of the input whose score is in [lo, hi], in 1/10
Between(lo, hi) == Count(report.input.rows, LAMBDA r : r.score >= lo /\ r.score <= hi)

\* C11: the per-band statistics count a record of score s in the
\* unfavorable band iff 0 <= s < 45, in the neutral band iff 45 <= s <= 55
\* and in the favorable band iff 55 < s <= 100
C11_BandsHalfOpen ==
    Analyzed =>
        /\ report.analysis.by_category["Defavorable (<45)"].count = Between(0, 449)
        /\ report.analysis.by_category["Neutre (45-55)"].count = Between(450, 550)
        /\ report.analysis.by_category["Favorable (>55)"].count = Between(551, 1000)

\* C28: on a frame that holds records, each record is counted in exactly
\* one band, so the three counts of by_category sum to the global total,
\* whatever the scores, 0, 45, 55 and 100 included
C28_BandCountsSumToTotal ==
    Analyzed =>
        /\ \A k \in DOMAIN report.frame.rows :
               report.frame.rows[k].score_category \in Categories
        /\ report.analysis.by_category["Defavorable (<45)"].count
             + report.analysis.by_category["Neutre (45-55)"].count
             + report.analysis.by_category["Favorable (>55)"].count
           = report.analysis.global.total_signals

\* The records of the input with a score above 55, below 45
Above55 == SelectSeq(report.input.rows, LAMBDA r : r.score > 550)
Below45 == SelectSeq(report.input.rows, LAMBDA r : r.score < 450)

\* The fraction of rows with a positive return, in 1/10 of a percent
Winners(rows) == Round(1000 * Cardinality({k \in DOMAIN rows : rows[k].return_30d > 0}),
                       Len(rows))

\* C12: on a frame that holds records, the favorable summary is there iff a
\* score is above 55 and counts exactly those records, with their success
\* rate; the unfavorable summary is there iff a score is below 45 and counts
\* exactly those; the global total is the number of records
C12_SummariesOverTheirRecords ==
    Analyzed =>
        /\ ("favorable" \in DOMAIN report.analysis) <=> (Above55 # <<>>)
        /\ Above55 # <<>> =>
              /\ report.analysis.favorable.count = Len(Above55)
              /\ report.analysis.favorable.success_rate = Winners(Above55)
        /\ ("unfavorable" \in DOMAIN report.analysis) <=> (Below45 # <<>>)
        /\ Below45 # <<>> => report.analysis.unfavorable.count = Len(Below45)
        /\ report.analysis.global.total_signals = Len(report.input.rows)
        /\ ~report.raised

\* a frame of a record of score 55.0 and a record of score 55.1 with a
\* positive return was analysed: one favorable record, no unfavorable summary
C12_Witness ==
    /\ Analyzed
    /\ \E j, k \in DOMAIN report.input.rows :
          /\ report.input.rows[j].score = 550
          /\ report.input.rows[k].score = 551 /\ report.input.rows[k].return_30d > 0
    /\ "favorable" \in DOMAIN report.analysis
    /\ report.analysis.favorable.count = 1
    /\ "unfavorable" \notin DOMAIN report.analysis

\* The columns of the emitted record set
RecordFields == {"date", "score", "close", "rsi14", "ma50", "ma200", "return_30d", "ticker"}

\* The place of ticker in the list of the call
PlaceOf(ticker) == CHOOSE t \in DOMAIN run.tickers : run.tickers[t] = ticker

\* C22: the combined record set a multi-ticker run returns has exactly the
\* fields date, score, close, rsi14, ma50, ma200, return_30d and ticker, as
\* many rows as the tickers' frames together, in the order of the ticker
\* list; and the analyses added no field to the frames they were given
C22_RecordsKeepTheirFields ==
    (run.pc = "done" /\ run.mode = "multi" /\ run.ret.combined.kind = "df") =>
        LET rows == run.ret.combined.rows
        IN /\ \A k \in DOMAIN rows : DOMAIN rows[k] = RecordFields
           /\ Len(rows) = Len(concat(run.all_results))
           /\ \A a, b \in DOMAIN rows :
                 a < b => PlaceOf(rows[a].ticker) <= PlaceOf(rows[b].ticker)
           /\ \A f \in DOMAIN run.all_results :
                 \A k \in DOMAIN run.all_results[f] :
                    DOMAIN run.all_results[f][k] = RecordFields

----------------------------------------------------------------------------
(* Runs while the store is written (WrittenSpec). *)

\* The snapshot of the last evaluated index under config
SnapshotUnder(config) == compute_score_at_date(run.df, run.at, config)

\* C27: whatever was written to the store since the engine was constructed,
\* the snapshot of every evaluated index of a single- or multi-ticker run,
\* and the record made of it, is the one computed under the configuration
\* resolved before the construction
C27_RunsOnTheConfigurationBuiltOn ==
    Evaluated =>
        /\ run.score_data = SnapshotUnder(BuiltOn.config)
        /\ (run.score_data.kind = "snapshot" /\ HasForward(run.df, run.at)) =>
              /\ run.results # <<>>
              /\ run.results[Len(run.results)] =
                     WithReturn(run.df, run.at, SnapshotUnder(BuiltOn.config).rec)

\* the second ticker of a multi-ticker run, whose first ticker gave its
\* records, makes a record of a snapshot that differs from the one the
\* store as written meanwhile resolves to, after the active profile and a
\* ticker changed too
C27_Witness ==
    /\ Evaluated
    /\ run.mode = "multi"
    /\ run.t = 2
    /\ run.all_results # <<>>
    /\ run.score_data.kind = "snapshot"
    /\ HasForward(run.df, run.at)
    /\ SnapshotUnder(resolved_now) # run.score_data
    /\ ActiveIds = {1}
    /\ tickers_tbl # <<>>

----------------------------------------------------------------------------
(* Nothing to analyse (EmptySpec). *)

\* The provider's history of ticker gives run_backtest no record
GivesNoRecord(ticker) == market[ticker] # Listed(128, 2)

\* C13: analyze_results on None or on a frame without rows returns an empty
\* mapping and raises nothing; a multi-ticker run none of whose tickers
\* yields a record returns None with an empty mapping of analyses
C13_NothingInNothingOut ==
    /\ (report.called /\ (report.input.kind = "None" \/ report.input.rows = <<>>)) =>
          ~report.raised /\ DOMAIN report.analysis = {}
    /\ (run.pc = "done" /\ run.mode = "multi"
        /\ \A t \in DOMAIN run.tickers : GivesNoRecord(run.tickers[t])) =>
          run.ret.combined.kind = "None" /\ DOMAIN run.ret.analyses = {}

\* the frame without rows that run_backtest returned for a ticker was
\* analysed, and a multi-ticker run over two tickers without records is done
C13_Witness ==
    /\ report.called /\ report.input.kind = "df" /\ report.input.rows = <<>>
    /\ run.pc = "done" /\ run.mode = "multi" /\ Len(run.tickers) = 2
    /\ \A t \in DOMAIN run.tickers : GivesNoRecord(run.tickers[t])
    /\ \E t \in DOMAIN run.tickers : market[run.tickers[t]].kind = "df"

----------------------------------------------------------------------------
(* Formulas in the resolved configuration (FormulaSpec). *)

\* The weights mapping as the file and the rows of config give it, with no
\* formula and no ticker in the store
WeightsMapping == GetConfig(yaml, "none", config_tbl, EmptyRel, <<>>).config["weights"]

\* C20: a configuration resolved from the store has the keys formulas and
\* formula_weights iff the store holds a formula, formula_weights gives every
\* formula its stored weight, and its weights mapping is the one the file and
\* the rows of config give, whatever set_formula, set_formula_weight,
\* delete_formula, save_profile_weights and set_active_profile did
C20_FormulasApart ==
    resolved.status = "ok" =>
        /\ "formulas" \in DOMAIN resolved.config <=> DOMAIN formulas_tbl # {}
        /\ "formula_weights" \in DOMAIN resolved.config <=> DOMAIN formulas_tbl # {}
        /\ DOMAIN formulas_tbl # {} =>
              resolved.config["formula_weights"]
                = Map([n \in DOMAIN formulas_tbl |-> Num(formulas_tbl[n].weight)])
        /\ resolved.config["weights"] = WeightsMapping

----------------------------------------------------------------------------
(* The walk of run_backtest (WalkSpec). *)

\* The least index of df (from 0) whose timestamp is not before start_date,
\* the length of df when there is none
LeastIndexFrom(df, start_date) ==
    IF \E k \in DOMAIN df : df[k].ts >= start_date
    THEN (CHOOSE k \in DOMAIN df :
              /\ df[k].ts >= start_date
              /\ \A j \in 1 .. k - 1 : df[j].ts < start_date) - 1
    ELSE Len(df)

\* A call of run_backtest on its own is in its loop or past it
Walking == run.mode = "single" /\ run.pc \in {"loop", "done"}

\* The indices evaluated so far are from, from + d, ... below the length
\* of df, in that order, and the next is the one after them; once the call
\* is over none below the length is left; the records are in the order
\* of their dates
StridedWalk ==
    LET from == LeastIndexFrom(run.df, run.start_date)
        d == run.interval_days
        n == Len(run.visited)
    IN /\ d >= 1
       /\ \A k \in 1 .. n : run.visited[k] = from + (k - 1) * d /\ run.visited[k] < Len(run.df)
       /\ run.i = from + n * d
       /\ run.pc = "done" => from + n * d >= Len(run.df)
       /\ run.pc = "done" /\ from = Len(run.df) => run.results = <<>>
       /\ \A a, b \in DOMAIN run.results : a < b => run.results[a].date < run.results[b].date

\* A step of the loop either leaves it, returning, or is a pass at an index
\* below the length of df that moves to a greater index of the same df: the
\* distance of the index to the length is a variant of the loop
LoopAdvances ==
    run.pc = "loop" =>
        \/ run'.pc = "done"
        \/ /\ run'.pc = "loop"
           /\ run.i < Len(run.df)
           /\ run'.df = run.df
           /\ run'.i > run.i

\* C16: run_backtest evaluates exactly the indices start_idx, start_idx + d,
\* ... below the length of the series, each once and in increasing order,
\* where start_idx is the least index dated start or later (the length when
\* there is none, and then the result is empty); the loop ends; the records
\* are in strictly increasing order of date
C16_StridedWalk ==
    /\ [](Walking => StridedWalk)
    /\ [][LoopAdvances]_vars

\* a call from a non-trading day is over, having evaluated more than three
\* indices and emitted two records
C16_Witness ==
    /\ Walking /\ run.pc = "done"
    /\ Len(run.visited) > 3
    /\ run.df[run.visited[1] + 1].ts > run.start_date
    /\ Len(run.results) = 2

\* Two calls of run_backtest alone with the same dates and interval
SameCall(a, b) ==
    /\ a.start_date = b.start_date
    /\ a.end_date = b.end_date
    /\ a.interval_days = b.interval_days

\* C18: a call of run_backtest for a ticker with the start, end and interval
\* of the ticker's call before it returns the records that call returned,
\* whatever calls of run_backtest and analyze_results were made before and
\* between the two (the series of a ticker and the engine's configuration are
\* those of the whole behaviour)
C18_SameCallSameRecords ==
    [][\A ticker \in DOMAIN returned \cap DOMAIN returned' :
          SameCall(returned[ticker], returned'[ticker]) =>
              returned'[ticker].result = returned[ticker].result]_vars

\* a ticker's call is about to return records for the second time with the
\* same arguments, after a call for the other ticker with other arguments
C18_Witness ==
    /\ run.pc = "loop" /\ run.mode = "single" /\ run.i >= Len(run.df)
    /\ run.results # <<>>
    /\ run.tickers[1] \in DOMAIN returned
    /\ SameCall(returned[run.tickers[1]], run)
    /\ \E other \in DOMAIN returned :
          /\ other # run.tickers[1]
          /\ ~SameCall(returned[other], run)
          /\ returned[other].result.rows # <<>>

----------------------------------------------------------------------------
(* The score assembler (ScoreSpec). *)

\* C14: every emitted score lies in [0, 100] (in 1/10: [0, 1000]), for every
\* configuration the resolver gives and all sub-scores in [0, 1]
C14_ScoreWithinRange ==
    assembly.done => (assembly.score >= 0 /\ assembly.score <= 1000)

\* The weight the configuration holds for n, in 1/100
WeightOf(n) == engine_cfg.config["weights"].m[n].n

\* The sum over the six names of weight times sub-score, in 1/100000
RECURSIVE WeightedSum(_)
WeightedSum(names) ==
    IF names = {} THEN 0
    ELSE LET n == CHOOSE x \in names : TRUE
         IN WeightOf(n) * assembly.sub[n] + WeightedSum(names \ {n})

\* C15: the emitted score is 100 times the sum, over the six named weights
\* of the configuration's weights mapping, of the weight times its own
\* sub-score, rounded to one decimal; formula_weights, when the
\* configuration holds them, do not enter
C15_CompositeIsWeightedSum ==
    assembly.done => assembly.score = Round(WeightedSum(WeightNames), 100)

\* a score was assembled from sub-scores that differ, under a configuration
\* that holds formula_weights and an override of a weight
C15_Witness ==
    /\ assembly.done
    /\ "formula_weights" \in DOMAIN engine_cfg.config
    /\ config_tbl # <<>>
    /\ assembly.sub["rsi14"] = 1000 /\ assembly.sub["drawdown90"] = 0
    /\ WeightOf("rsi14") # WeightOf("drawdown90")
    /\ assembly.score > 0

====
